---- MODULE Spec2Model ----
(***************************************************************************)
(* Model of the autodeploy server: the request gateway (handle_request),   *)
(* the background worker (process_task_async) and the three components it  *)
(* sequences: generate_app_with_llm, create_or_update_github_repo and      *)
(* notify_evaluator.  The repository holds two copies of the program,      *)
(* src/openai_deployer.py and src/app_builder.py; the variable `variant`   *)
(* says which one is running.  The generative service, the hosting         *)
(* platform and the callback endpoint are the environment: every call to   *)
(* them is one step of a worker whose answer is chosen among the answers   *)
(* that service can give in the current state.                             *)
(***************************************************************************)
EXTENDS Integers, Sequences, FiniteSets, TLC

\* ------------------------------------------------------------------ bounds
\* Number of POST /api-endpoint requests the gateway receives in a run.
MaxRequests == 1

\* ------------------------------------------------------ program constants
\* for _ in range(12): the hosting probe loop.
PollAttempts == 12
\* time.sleep(10) after a failed probe.
PollInterval == 10
\* max_retries, delay = 5, 1
max_retries == 5
InitialDelay == 1
\* delay *= 2
DelayFactor == 2

Variants == {"openai_deployer", "app_builder"}
MY_SECRET == "s3cret"
GITHUB_USERNAME == "octo"
MIT_LICENSE_TEXT == "MIT"
None == "None"

ReqIds == 1..MaxRequests
\* The requests of the runs in which one request more arrives, so that two
\* workers can be alive together (SpecConcurrent).
Ids == 1..(MaxRequests + 1)
\* round: 1 is the initial creation, 2 stands for a revision (round > 1).
Rounds == {1, 2}
TaskIds == {"demo-1"}
\* request_data.get('secret'): the configured secret, another value, or None.
Secrets == {MY_SECRET, "wrong", None}
FileNames == {"index.html", "README.md", "LICENSE"}

VARIABLES variant, faults, clients, gw, wk, remote
vars == <<variant, faults, clients, gw, wk, remote>>

\* ----------------------------------------------------------------- helpers
\* api_base_url: the openai_deployer copy holds a markdown link where the URL
\* should be, so no HTTP adapter matches it and every call built on it raises
\* requests.exceptions.InvalidSchema (a RequestException) before any I/O.
api_base_url(v) ==
  IF v = "openai_deployer" THEN "[https://api.github.com](https://api.github.com)"
  ELSE "https://api.github.com"

UrlHasHttpScheme(u) == u \in {"https://api.github.com"}

repo_url(v, task) ==
  IF v = "openai_deployer"
  THEN <<"[https://github.com/](https://github.com/)", GITHUB_USERNAME, task>>
  ELSE <<"https://github.com/", GITHUB_USERNAME, task>>

pages_live_url(task) == <<"https://", GITHUB_USERNAME, ".github.io/", task>>

\* A content / version token is <<writer, file>>; writer 0 is an earlier run of
\* the service (and the fixed license text, which is the same in every run).
\* Absent is Python's None for a content, a token or a commit identifier.
Absent == <<>>

\* What the generator of worker i produced under the key f.
GeneratedContent(i, f) == <<i, f>>

\* MIT_LICENSE_TEXT as a content.
LicenseContent == <<0, "LICENSE">>

\* Variant of ContentOf without files_to_commit['LICENSE'] = MIT_LICENSE_TEXT.
ContentOfGeneratedOnly(i, f) == GeneratedContent(i, f)

\* files_to_commit[f] once files_to_commit['LICENSE'] = MIT_LICENSE_TEXT is done.
ContentOf(i, f) == IF f = "LICENSE" THEN LicenseContent ELSE GeneratedContent(i, f)
Contents == {ContentOf(i, f) : i \in {0} \cup Ids, f \in FileNames}

\* ------------------------------------------------------------ the gateway
\* Variant of Authorized that lets a request without a secret through.
AuthorizedUnlessWrong(secret) == secret # "wrong"

\* if not MY_SECRET or request_data.get('secret') != MY_SECRET: -> 401
Authorized(secret) == MY_SECRET # None /\ secret = MY_SECRET

\* The thread object handed to Thread(target=process_task_async, args=(request_data,)).
NoWorker ==
  [pc |-> "none", task |-> None, round |-> 0, call |-> None,
   existing_code |-> Absent, app_files |-> None,
   fetched |-> Absent, files |-> <<>>, fi |-> 0, sha |-> Absent,
   latest_commit_sha |-> Absent, probes |-> 0, poll_waits |-> <<>>, poll |-> None,
   repo_details |-> <<>>, payload |-> <<>>,
   attempt |-> 0, delay |-> 0, waits |-> <<>>, posts |-> 0, last_post |-> None,
   idx_reads |-> 0, llm_calls |-> 0, llm_answer |-> None, creates |-> 0,
   pf_writes |-> 0, pub_writes |-> 0, pages_posts |-> 0,
   create_answer |-> None, fail_at |-> None, lic_put |-> Absent,
   pf_failure |-> None, received |-> 0, found |-> FALSE]

NewWorker(req) == [NoWorker EXCEPT !.pc = "start", !.task = req.task, !.round = req.round]

NoRequest ==
  [secret |-> None, task |-> None, round |-> 0, email |-> None, nonce |-> 0,
   fields |-> None]

\* Which fields besides the secret a request body carries: all of them, all but
\* those of the callback (email, nonce, evaluation_url), or all but the brief.
\* handle_request looks at the secret only; clients that keep to the Task
\* Request format send all fields.
RequestFields ==
  IF clients = "conforming" THEN {"all"} ELSE {"all", "no_callback", "no_brief"}

\* The repository of one task on the hosting platform.
NoRepo == [exists |-> FALSE, files |-> [f \in FileNames |-> Absent]]
PriorRepo == [exists |-> TRUE, files |-> [f \in FileNames |-> ContentOf(0, f)]]

\* The server after start-up, no request received yet. faults tells whether
\* the external services may answer with errors of their own (a transport
\* failure, a server error, a rate limit, an unusable generation) besides the
\* answers the state of the remote project determines; clients whether every
\* client sends complete Task Requests.
InitFor(f, c) ==
  /\ variant \in Variants
  /\ faults = f
  /\ clients = c
  /\ gw = [i \in Ids |-> [pc |-> "idle", resp |-> 0, req |-> NoRequest]]
  /\ wk = [i \in Ids |-> NoWorker]
  /\ remote \in [TaskIds -> {NoRepo, PriorRepo}]

InitWith(f) == InitFor(f, "conforming")

Init == InitWith(TRUE)

\* The same with external services that answer without errors of their own.
InitReliable == InitWith(FALSE)

\* The same as Init with clients that may leave fields out of the request.
InitAnyRequest == InitFor(TRUE, "any")

\* Variant of ThreadStart that starts no thread while a worker for the same
\* task is running.
ThreadStartUnlessRunning(i, req) ==
  IF \E j \in Ids : wk[j].task = req.task /\ wk[j].pc \notin {"none", "done", "failed"}
  THEN wk
  ELSE [wk EXCEPT ![i] = NewWorker(req)]

\* thread = Thread(target=process_task_async, args=(request_data,));
\* thread.start()
ThreadStart(i, req) == [wk EXCEPT ![i] = NewWorker(req)]

\* handle_request up to thread.start(): the 401 answer is returned in the same
\* step; the 200 answer is a later step (Acknowledge), so that the worker may
\* run in between.
handle_request(i) ==
  /\ gw[i].pc = "idle"
  /\ \A j \in Ids : j < i => gw[j].pc # "idle"
  /\ \E secret \in Secrets, task \in TaskIds, round \in Rounds, fields \in RequestFields :
       LET req == [secret |-> secret, task |-> task, round |-> round,
                   email |-> "a@b", nonce |-> i, fields |-> fields]
       IN IF ~Authorized(secret)
          THEN /\ gw' = [gw EXCEPT ![i] = [pc |-> "responded", resp |-> 401, req |-> req]]
               /\ wk' = wk
          ELSE /\ gw' = [gw EXCEPT ![i] = [pc |-> "spawned", resp |-> 0, req |-> req]]
               /\ wk' = ThreadStart(i, req)
  /\ UNCHANGED <<variant, faults, clients, remote>>

\* Variant of AckReady that joins the thread before answering.
AckReadyAfterJoin(i) == gw[i].pc = "spawned" /\ wk[i].pc \in {"done", "failed"}

\* return jsonify({"status": ...}), 200 : nothing of the worker is read.
AckReady(i) == gw[i].pc = "spawned"

Acknowledge(i) ==
  /\ AckReady(i)
  /\ gw' = [gw EXCEPT ![i].pc = "responded", ![i].resp = 200]
  /\ UNCHANGED <<variant, faults, clients, wk, remote>>

\* ------------------------------------------------- the hosting platform
\* Answers a call built on api_base_url can get: the platform's answers when
\* the URL is one requests can send, and always a raised RequestException.
Faulty(answers) == IF faults THEN answers ELSE {}

ApiAnswers(v, answers) ==
  IF UrlHasHttpScheme(api_base_url(v)) THEN answers \cup Faulty({"exc"}) ELSE {"exc"}

\* GET .../contents/<f>: 200 only for a stored file; any other status otherwise
\* (not found) or at any time (rate limit, server error).
ContentsGetAnswers(v, repo, f) ==
  ApiAnswers(v, IF repo.exists /\ repo.files[f] # Absent
                THEN {"200"} \cup Faulty({"other"}) ELSE {"other"})

\* The platform accepts a write that creates a file with no token or updates a
\* file with its current token; it rejects every other write.
WriteAccepted(repo, f, sha) == repo.exists /\ repo.files[f] = sha

ContentsPutAnswers(v, repo, f, sha) ==
  ApiAnswers(v, IF WriteAccepted(repo, f, sha)
                THEN {"ok"} \cup Faulty({"rejected"}) ELSE {"rejected"})

\* POST /user/repos: 201, 422 (name taken) or another status.
CreateAnswers(v, repo) ==
  ApiAnswers(v, Faulty({"other"}) \cup (IF repo.exists THEN {"422"} ELSE {"201"}))

\* ------------------------------------------- create_or_update_github_repo
\* The files a call commits: the keys of files_to_commit in insertion order,
\* then files_to_commit['LICENSE'] = MIT_LICENSE_TEXT.
KeysOf(app_files) ==
  CASE app_files = "complete" -> <<"index.html", "README.md">>
    [] app_files = "with_license" -> <<"LICENSE", "index.html", "README.md">>
    [] OTHER -> <<>>

\* Whether the value supports files_to_commit['LICENSE'] = ...: a dict does, a
\* list or a str raises TypeError.
IsMapping(app_files) == app_files \in {"complete", "with_license"}

\* Assigning to a key a dict already has keeps the key's position.
FilesToCommit(call, app_files) ==
  IF call = "prefetch" THEN <<"LICENSE">>
  ELSE IF \E k \in 1..Len(KeysOf(app_files)) : KeysOf(app_files)[k] = "LICENSE"
       THEN KeysOf(app_files)
       ELSE KeysOf(app_files) \o <<"LICENSE">>

\* An exception leaving a step of the worker: inside the pre-fetch call it is
\* caught by the inner try of process_task_async (existing_code stays None and
\* generation follows); anywhere else by the outer try (FATAL ERROR).
\* The locals of create_or_update_github_repo, gone when the call ends.
DropLocals(w) ==
  [w EXCEPT !.call = None, !.fetched = Absent, !.found = FALSE, !.files = <<>>, !.fi = 0, !.sha = Absent,
            !.latest_commit_sha = Absent, !.probes = 0, !.poll_waits = <<>>]

\* Variant of Fatal in which the exception leaves process_task_async.
FatalEscapes(w) == [DropLocals(w) EXCEPT !.pc = "escaped", !.fail_at = w.pc]

\* The outer `except Exception` of process_task_async: the error is printed and
\* the thread function returns.
Fatal(w) == [DropLocals(w) EXCEPT !.pc = "failed", !.fail_at = w.pc]

\* Variant of Raise without the try around the pre-fetch call.
RaiseAlwaysFatal(w) == Fatal(w)

\* An exception leaving the current call: `except Exception` around the
\* pre-fetch call keeps existing_code None and goes on to generation, the outer
\* `except Exception` ends the worker. fail_at keeps the step at which the fatal
\* exception was raised, pf_failure that the pre-fetch call raised.
Raise(w) ==
  IF w.call = "prefetch"
  THEN [DropLocals(w) EXCEPT !.pc = "generate", !.existing_code = Absent,
                             !.pf_failure = IF @ = None THEN "raised" ELSE @]
  ELSE Fatal(w)

\* if round_num > 1 and existing_code: modify the provided file, else: generate
\* the two files from the brief.
PromptStyle(round_num, existing_code) ==
  IF round_num > 1 /\ existing_code # Absent THEN "modify" ELSE "generate"

\* The notification payload built from task_data and repo_details.
\* Variant of PayloadOf that reads the request from a place shared by all
\* threads, where the latest request received overwrites the one before.
PayloadOfSharedRequest(i, w, details) ==
  LET last == CHOOSE j \in Ids :
                /\ gw[j].pc # "idle"
                /\ \A k \in Ids : gw[k].pc # "idle" => k <= j
  IN [email |-> gw[last].req.email, task |-> gw[last].req.task,
      round |-> gw[last].req.round, nonce |-> gw[last].req.nonce,
      repo_url |-> details.repo_url, commit_sha |-> details.commit_sha,
      pages_url |-> details.pages_url]

PayloadOf(i, w, details) ==
  [email |-> gw[i].req.email, task |-> w.task, round |-> w.round,
   nonce |-> gw[i].req.nonce, repo_url |-> details.repo_url,
   commit_sha |-> details.commit_sha, pages_url |-> details.pages_url]

\* return {...} of create_or_update_github_repo, and the caller's code up to
\* its next external call. task_data['email'], task_data['nonce'] and
\* task_data['evaluation_url'] raise KeyError for a request without them.
ReturnFromCall(v, i, w) ==
  IF w.call = "prefetch"
  THEN [DropLocals(w) EXCEPT !.pc = "generate", !.existing_code = w.fetched]
  ELSE LET details == [repo_url |-> repo_url(v, w.task),
                       commit_sha |-> w.latest_commit_sha,
                       pages_url |-> pages_live_url(w.task)]
       IN IF gw[i].req.fields = "no_callback"
          THEN Fatal([w EXCEPT !.pc = "payload", !.repo_details = <<details>>])
          ELSE [DropLocals(w) EXCEPT !.pc = "notify",
                    !.repo_details = <<details>>,
                    !.payload = <<PayloadOf(i, w, details)>>,
                    !.attempt = 0, !.delay = InitialDelay]

\* The loop `for filename, content in files_to_commit.items()` starts.
\* files_to_commit['LICENSE'] = ... raises TypeError when the publish call was
\* handed something that is not a dict.
BeginCommit(w) ==
  IF w.call = "publish" /\ ~IsMapping(w.app_files)
  THEN Raise([w EXCEPT !.pc = "commit"])
  ELSE [w EXCEPT !.files = FilesToCommit(w.call, w.app_files), !.fi = 1, !.pc = "file_get"]

\* if round_num == 1: create the repository first.
AfterPrefetchRead(w) ==
  IF w.round = 1 THEN [w EXCEPT !.pc = "create"] ELSE BeginCommit(w)

\* Whether a call of create_or_update_github_repo reads index.html first:
\* `if pre_fetch_code:` in openai_deployer, `if round_num > 1:` in app_builder.
ReadsIndexFirst(v, round, call) ==
  IF v = "openai_deployer" THEN call = "prefetch" ELSE round > 1

\* Whether the call returns right after that read (openai_deployer's early
\* return of the pre-fetch mode).
ReturnsAfterRead(v, call) == v = "openai_deployer" /\ call = "prefetch"

EnterCall(v, w, call) ==
  LET w1 == [w EXCEPT !.call = call, !.poll = None]
  IN IF ReadsIndexFirst(v, w.round, call) THEN [w1 EXCEPT !.pc = "idx_get"]
     ELSE AfterPrefetchRead(w1)

\* ----------------------------------------------------- the worker's steps
Set(i, w) == wk' = [wk EXCEPT ![i] = w]

\* process_task_async from its first line to its first external call.
Start(i) ==
  /\ wk[i].pc = "start"
  /\ Set(i, IF gw[i].req.fields = "no_brief" THEN Fatal(wk[i])
            ELSE IF wk[i].round > 1 THEN EnterCall(variant, wk[i], "prefetch")
            ELSE [wk[i] EXCEPT !.pc = "generate"])
  /\ UNCHANGED <<variant, faults, clients, gw, remote>>

\* requests.get(get_file_url) for index.html, raise_for_status and decoding.
\* "other" (a status raise_for_status rejects) and "exc" are RequestExceptions,
\* caught in place; "malformed" (a 200 body without 'content', or content that
\* does not decode) raises KeyError or ValueError, which is not caught in place.
PrefetchRead(i) ==
  /\ wk[i].pc = "idx_get"
  /\ LET repo == remote[wk[i].task]
     IN \E a \in ContentsGetAnswers(variant, repo, "index.html")
                 \cup (IF "200" \in ContentsGetAnswers(variant, repo, "index.html")
                       THEN Faulty({"malformed"}) ELSE {}) :
          LET w == [wk[i] EXCEPT !.idx_reads = @ + 1,
                                 !.pf_failure = IF wk[i].call = "prefetch" /\ a # "200"
                                                THEN a ELSE @]
          IN
          Set(i, CASE a = "200" ->
                        LET w1 == [w EXCEPT !.fetched = repo.files["index.html"]]
                        IN IF ReturnsAfterRead(variant, w.call)
                           THEN ReturnFromCall(variant, i, w1)
                           ELSE AfterPrefetchRead(w1)
                   [] a = "malformed" -> Raise(w)
                   [] OTHER ->
                        IF ReturnsAfterRead(variant, w.call)
                        THEN ReturnFromCall(variant, i, w)
                        ELSE AfterPrefetchRead(w))
  /\ UNCHANGED <<variant, faults, clients, gw, remote>>

\* What the generative service can answer: a transport failure or timeout, a
\* non-success status, text that is not JSON, a JSON object without one of the
\* two keys, a JSON object with both keys, one with both keys and a 'LICENSE'
\* key, a JSON list or string in which `"index.html" in ...` and
\* `"README.md" in ...` hold, and a JSON number, boolean or null. The last two
\* are left out where response_format json_object makes the text an object.
LlmAnswers(v) ==
  {"complete", "with_license"}
    \cup Faulty({"transport", "status", "nonjson", "missing_key"})
    \cup (IF v = "openai_deployer" THEN {} ELSE Faulty({"name_list", "scalar"}))

\* generate_app_with_llm: json.loads and the two `in` tests. The result is the
\* parsed value when both tests hold, None after one of the caught exceptions,
\* and "TypeError" when the `in` test itself raises (not caught in place).
generate_app_with_llm(answer) ==
  CASE answer \in {"complete", "with_license", "name_list"} -> answer
    [] answer = "scalar" -> "TypeError"
    [] OTHER -> None

\* Variant of AfterGenerate without the `if not app_files` check.
AfterGenerateUnchecked(v, w) ==
  EnterCall(v, [w EXCEPT !.existing_code = Absent, !.pf_failure = None,
                         !.app_files = IF @ = "TypeError" THEN None ELSE @], "publish")

\* `if not app_files: raise ValueError(...)`, else the publish call starts.
\* existing_code is not read again once generate_app_with_llm has returned.
AfterGenerate(v, w) ==
  LET w1 == [w EXCEPT !.existing_code = Absent, !.pf_failure = None]
  IN IF w1.app_files = "TypeError" THEN Raise([w1 EXCEPT !.app_files = None])
     ELSE IF w1.app_files = None THEN Raise(w1)
     ELSE EnterCall(v, w1, "publish")

Generate(i) ==
  /\ wk[i].pc = "generate"
  /\ \E a \in LlmAnswers(variant) :
       Set(i, AfterGenerate(variant,
                [wk[i] EXCEPT !.llm_calls = @ + 1, !.llm_answer = a,
                              !.app_files = generate_app_with_llm(a)]))
  /\ UNCHANGED <<variant, faults, clients, gw, remote>>

\* Variant of CreateContinues that takes "already exists" for an error.
CreateContinuesOnlyIfCreated(a) == a = "201"

\* if status_code == 201: ... elif status_code == 422: ... else: raise
CreateContinues(a) == a \in {"201", "422"}

\* requests.post(.../user/repos): 201 and 422 go on, anything else raises.
CreateRepo(i) ==
  /\ wk[i].pc = "create"
  /\ \E a \in CreateAnswers(variant, remote[wk[i].task]) :
       LET w == [wk[i] EXCEPT !.creates = @ + 1, !.create_answer = a]
       IN /\ Set(i, IF CreateContinues(a) THEN BeginCommit(w) ELSE Raise(w))
          /\ remote' = IF a = "201" THEN [remote EXCEPT ![w.task].exists = TRUE]
                       ELSE remote
  /\ UNCHANGED <<variant, faults, clients, gw>>

\* Variant of TokenFrom that never takes the token from the answer.
TokenFromNothing(a, current) == Absent

\* sha = None; if get_file_res.status_code == 200: sha = get_file_res.json().get('sha')
TokenFrom(a, current) == IF a = "200" THEN current ELSE Absent

\* get_file_res = requests.get(upload_url): the version token of the file.
\* found keeps whether the answer said the file exists.
FileGet(i) ==
  /\ wk[i].pc = "file_get"
  /\ LET w == wk[i]
         f == w.files[w.fi]
     IN \E a \in ContentsGetAnswers(variant, remote[w.task], f) :
          Set(i, IF a \in {"200", "other"}
                 THEN [w EXCEPT !.sha = TokenFrom(a, remote[w.task].files[f]),
                                !.found = (a = "200"), !.pc = "file_put"]
                 ELSE Raise(w))
  /\ UNCHANGED <<variant, faults, clients, gw, remote>>

\* After a successful write: the next file, or the request to enable Pages.
AfterWrite(w) ==
  IF w.fi < Len(w.files) THEN [w EXCEPT !.fi = @ + 1, !.pc = "file_get"]
  ELSE [w EXCEPT !.pc = "pages"]

\* Variant of RecordCommit that keeps the commit of the first write.
RecordCommitFirstOnly(prev, new) == IF prev = Absent THEN new ELSE prev

\* latest_commit_sha = upload_response.json()['commit']['sha']
RecordCommit(prev, new) == new

\* Variant of AfterRejectedWrite that logs the failure and goes on.
AfterRejectedWriteSkips(w) == AfterWrite(w)

\* else: raise Exception(f"Failed to commit {filename}. ...")
AfterRejectedWrite(w) == Raise(w)

\* upload_response = requests.put(upload_url, ...): 200/201 records the commit,
\* any other status raises.
FilePut(i) ==
  /\ wk[i].pc = "file_put"
  /\ LET w == wk[i]
         f == w.files[w.fi]
         w1 == [w EXCEPT !.lic_put = IF f = "LICENSE" /\ w.call = "publish"
                                     THEN ContentOf(i, f) ELSE @]
     IN \E a \in ContentsPutAnswers(variant, remote[w.task], f, w.sha) :
          IF a = "ok"
          THEN /\ Set(i, AfterWrite([w1 EXCEPT !.latest_commit_sha = RecordCommit(@, <<i, f>>),
                                      !.found = FALSE,
                                      !.pf_writes = IF w.call = "prefetch" THEN @ + 1 ELSE @,
                                      !.pub_writes = IF w.call = "publish" THEN @ + 1 ELSE @]))
               /\ remote' = [remote EXCEPT ![w.task].files[f] = ContentOf(i, f)]
          ELSE /\ Set(i, AfterRejectedWrite(w1))
               /\ remote' = remote
  /\ UNCHANGED <<variant, faults, clients, gw>>

\* requests.post(pages_url_api, ...): the response is not looked at; a raised
\* RequestException is not caught here.
EnablePages(i) ==
  /\ wk[i].pc = "pages"
  /\ LET w == [wk[i] EXCEPT !.pages_posts = @ + 1]
     IN \E a \in ApiAnswers(variant, {"answered"}) :
          Set(i, IF a = "answered" THEN [w EXCEPT !.pc = "probe"] ELSE Raise(w))
  /\ UNCHANGED <<variant, faults, clients, gw, remote>>

\* What a HEAD of the hosted page can give: 200, another status, or a raised
\* RequestException (pages_live_url is a well-formed URL in both copies).
ProbeAnswers == {"200", "other"} \cup Faulty({"exc"})

\* if page_res.status_code == 200: return {...}
ProbeSucceeded(a) == a = "200"

\* Variant of ProbeBudgetLeft with one iteration too many.
ProbeBudgetLeftOffByOne(n) == n <= PollAttempts

\* for _ in range(12): whether another iteration follows n completed ones.
ProbeBudgetLeft(n) == n < PollAttempts

\* Variant of AfterPolling that treats the timeout as an error.
AfterPollingRaises(v, i, w) == Raise(w)

\* The code after the probe loop: the warning and the same return value.
AfterPolling(v, i, w) == ReturnFromCall(v, i, w)

\* One iteration of the probe loop: the HEAD request and, when it did not
\* answer 200, time.sleep(10).
Probe(i) ==
  /\ wk[i].pc = "probe"
  /\ LET w == [wk[i] EXCEPT !.probes = @ + 1]
     IN \E a \in ProbeAnswers :
          Set(i, IF ProbeSucceeded(a)
                 THEN ReturnFromCall(variant, i, [w EXCEPT !.poll = "live"])
                 ELSE LET w1 == [w EXCEPT !.poll_waits = Append(@, PollInterval)]
                      IN IF ProbeBudgetLeft(w1.probes) THEN w1
                         ELSE AfterPolling(variant, i, [w1 EXCEPT !.poll = "timed_out"]))
  /\ UNCHANGED <<variant, faults, clients, gw, remote>>

\* ---------------------------------------------------------- notify_evaluator
\* What the callback POST can give: success, a status raise_for_status
\* rejects, a timeout waiting for the response (timeout=15), or a connection
\* that could not be made.
CallbackAnswers == {"ok"} \cup Faulty({"status", "timeout", "refused"})

\* Whether the request reached the callback endpoint: it did unless no
\* connection was made.
Delivered(a) == a \in {"ok", "status", "timeout"}

\* Variant of MayRetry with one retry too many.
MayRetryOffByOne(attempt) == attempt < max_retries

\* if attempt < max_retries - 1: sleep and retry, else give up.
MayRetry(attempt) == attempt < max_retries - 1

\* Variant of NextDelay with a linear backoff.
NextDelayLinear(d) == d + InitialDelay

\* delay *= 2
NextDelay(d) == d * DelayFactor

\* Variant of AfterFailedPost that raises once the retries are used up.
AfterFailedPostRaises(w) ==
  IF MayRetry(w.attempt)
  THEN [w EXCEPT !.waits = Append(@, w.delay), !.delay = NextDelay(w.delay),
                 !.attempt = @ + 1]
  ELSE Raise(w)

\* The handler of a failed attempt: sleep(delay) and go round the loop again,
\* or log and break, after which notify_evaluator returns None.
AfterFailedPost(w) ==
  IF MayRetry(w.attempt)
  THEN [w EXCEPT !.waits = Append(@, w.delay), !.delay = NextDelay(w.delay),
                 !.attempt = @ + 1]
  ELSE [w EXCEPT !.pc = "done"]

\* Variant of AfterOkPost that goes round the loop again.
AfterOkPostContinues(w) == AfterFailedPost(w)

\* print("Successfully notified evaluator..."); return
AfterOkPost(w) == [w EXCEPT !.pc = "done"]

\* One iteration of `for attempt in range(max_retries)`.
Notify(i) ==
  /\ wk[i].pc = "notify"
  /\ \E a \in CallbackAnswers :
       LET w == [wk[i] EXCEPT !.posts = @ + 1,
                              !.received = IF Delivered(a) THEN @ + 1 ELSE @]
       IN Set(i, IF a = "ok" THEN AfterOkPost([w EXCEPT !.last_post = "ok"])
                 ELSE AfterFailedPost([w EXCEPT !.last_post = "fail"]))
  /\ UNCHANGED <<variant, faults, clients, gw, remote>>

\* A step of the thread serving request i.
WorkerStep(i) ==
  \/ Start(i)
  \/ PrefetchRead(i)
  \/ Generate(i)
  \/ CreateRepo(i)
  \/ FileGet(i)
  \/ FilePut(i)
  \/ EnablePages(i)
  \/ Probe(i)
  \/ Notify(i)

Next ==
  \E i \in ReqIds :
    \/ handle_request(i)
    \/ Acknowledge(i)
    \/ WorkerStep(i)

Spec == Init /\ [][Next]_vars

\* The same program with clients that may leave fields out.
SpecAnyRequest == InitAnyRequest /\ [][Next]_vars

\* The same program with every external call eventually answered: a worker
\* that can take a step eventually takes one.
FairSpec == Spec /\ \A i \in ReqIds : WF_vars(WorkerStep(i))

\* The same program serving one request more, so that workers overlap.
NextConcurrent ==
  \E i \in Ids :
    \/ handle_request(i)
    \/ Acknowledge(i)
    \/ WorkerStep(i)

SpecConcurrent == InitReliable /\ [][NextConcurrent]_vars

\* ===================================================================== claims

\* C1: a request whose secret is absent or differs from the configured one is
\* answered 401 and gets no worker: no step of a worker, hence no call to the
\* generative service, the hosting platform or the callback, is made for it.
C1_UnauthorizedNoWorker ==
  \A i \in ReqIds :
    (gw[i].pc # "idle" /\ gw[i].req.secret # MY_SECRET)
      => (gw[i].pc = "responded" /\ gw[i].resp = 401 /\ wk[i] = NoWorker)

C1_Witness ==
  \E i \in ReqIds : gw[i].pc = "responded" /\ gw[i].req.secret = None /\ gw[i].resp = 401

\* C2: for a request with the correct secret the 200 acknowledgment is enabled
\* in every state of the spawned worker, and the answer is 200 whatever the
\* worker did.
C2_AckIndependentOfWorker ==
  \A i \in ReqIds :
    /\ gw[i].pc = "spawned" => ENABLED Acknowledge(i)
    /\ (gw[i].pc = "responded" /\ gw[i].req.secret = MY_SECRET) => gw[i].resp = 200

C2_Witness ==
  \E i \in ReqIds : gw[i].pc = "spawned" /\ wk[i].pc = "failed" /\ wk[i].llm_calls = 1

FailedGeneration(w) ==
  w.llm_answer \in {"transport", "status", "nonjson", "missing_key"}

\* C4: when generation fails, for any round, the worker is FAILED and has
\* neither created a project, nor written a file, nor posted to the callback.
C4_FailedGenerationLeavesNoTrace ==
  \A i \in ReqIds :
    FailedGeneration(wk[i])
      => /\ wk[i].pc = "failed"
         /\ wk[i].creates = 0 /\ wk[i].pf_writes = 0 /\ wk[i].pub_writes = 0
         /\ wk[i].posts = 0

\* C5: a round-1 worker never reads index.html ahead of generation; a worker
\* with round > 1 makes exactly one such read over its run, before generation.
C5_ExactlyOnePrefetchRead ==
  \A i \in ReqIds :
    /\ wk[i].round = 1 => wk[i].idx_reads = 0
    /\ wk[i].round > 1 =>
         /\ wk[i].idx_reads <= 1
         /\ wk[i].llm_calls >= 1 => wk[i].idx_reads = 1
         /\ wk[i].pc \in {"done", "failed"} => wk[i].idx_reads = 1

\* C6: notify_evaluator makes at most 5 POSTs, makes another POST only after a
\* failed one, and none once a POST has succeeded.
C6_NotifyAttemptsBounded ==
  /\ [](\A i \in ReqIds : wk[i].posts <= max_retries)
  /\ [][\A i \in ReqIds :
          wk'[i].posts > wk[i].posts
            => /\ wk[i].pc = "notify"
               /\ wk[i].last_post # "ok"
               /\ wk[i].posts > 0 => wk[i].last_post = "fail"]_vars

C6_Witness ==
  \E i \in ReqIds : wk[i].posts = max_retries /\ wk[i].last_post = "ok" /\ wk[i].pc = "done"

\* Every attempt of the notifier failed and it has returned.
NotifyExhausted(w) == w.pc = "done" /\ w.last_post = "fail"

\* C7 as stated: when every attempt fails the delays waited are 1, 2, 4, 8, 16.
C7_DelaysOneToSixteen ==
  \A i \in ReqIds : NotifyExhausted(wk[i]) => wk[i].waits = <<1, 2, 4, 8, 16>>

\* C7 amended: when every attempt fails the delays waited double from 1 and are
\* 1, 2, 4, 8: one wait after each of the first four failed attempts and none
\* after the fifth; while the notifier runs the waits are a prefix of that.
C7_DelaysOneToEight ==
  \A i \in ReqIds :
    /\ NotifyExhausted(wk[i]) => wk[i].waits = <<1, 2, 4, 8>>
    /\ wk[i].pc = "notify" =>
         /\ Len(wk[i].waits) = wk[i].posts
         /\ wk[i].waits = SubSeq(<<1, 2, 4, 8>>, 1, wk[i].posts)

C7_Witness ==
  \E i \in ReqIds : NotifyExhausted(wk[i]) /\ Len(wk[i].waits) = max_retries - 1

\* C8: when all notification attempts fail the worker finishes in DONE; no
\* worker that has posted to the callback is ever FAILED.
C8_ExhaustedNotifyIsDone ==
  \A i \in ReqIds :
    /\ (wk[i].posts = max_retries /\ wk[i].last_post = "fail") => wk[i].pc = "done"
    /\ wk[i].pc = "failed" => wk[i].posts = 0

C8_Witness ==
  \E i \in ReqIds : wk[i].posts = max_retries /\ wk[i].last_post = "fail" /\ wk[i].pc = "done"

\* C9: in the probe loop every probe made so far failed and was followed by a
\* wait of 10, fewer than 12 probes have been made whenever another one is
\* due, and no probe is due once one has answered 200.
C9_ProbeLoopBounded ==
  \A i \in ReqIds :
    /\ wk[i].probes <= PollAttempts
    /\ wk[i].pc = "probe" =>
         /\ wk[i].probes < PollAttempts
         /\ wk[i].poll = None
         /\ wk[i].poll_waits = [k \in 1..wk[i].probes |-> PollInterval]
    /\ wk[i].poll = "live" => wk[i].pc # "probe"

C9_Witness ==
  \E i \in ReqIds :
    wk[i].pc = "probe" /\ wk[i].call = "publish" /\ wk[i].probes = PollAttempts - 1

\* The publish call of the worker has returned.
PublishReturned(w) == w.app_files # None /\ w.call = None /\ w.poll # None

\* C10: when all 12 probes fail the publish call returns, as after a successful
\* probe, the repository URL and hosted-page URL computed from the task
\* identifier and the account name, and the worker goes on to notify with them.
C10_ProbeTimeoutIsNotFatal ==
  \A i \in ReqIds :
    /\ (wk[i].app_files # None /\ wk[i].poll = "timed_out") => PublishReturned(wk[i])
    /\ PublishReturned(wk[i]) =>
         /\ wk[i].pc \in {"notify", "done"}
         /\ wk[i].pc = "done" => wk[i].posts >= 1
         /\ Len(wk[i].repo_details) = 1 /\ Len(wk[i].payload) = 1
         /\ wk[i].repo_details[1].repo_url = repo_url(variant, wk[i].task)
         /\ wk[i].repo_details[1].pages_url = pages_live_url(wk[i].task)
         /\ wk[i].payload[1].repo_url = wk[i].repo_details[1].repo_url
         /\ wk[i].payload[1].pages_url = wk[i].repo_details[1].pages_url

C10_Witness ==
  \E i \in ReqIds :
    wk[i].app_files # None /\ wk[i].poll = "timed_out" /\ wk[i].pc = "notify" /\ wk[i].posts = 1
\* C11: in the publish call project creation is attempted exactly when
\* round = 1; after 201 or 422 the file loop follows; after any other answer
\* the worker is FAILED with no file written and no notification sent.
C11_CreateOnlyInRoundOne ==
  \A i \in ReqIds :
    LET w == wk[i] IN
    /\ w.creates <= 1
    /\ w.creates = 1 => w.round = 1 /\ w.llm_calls = 1
    /\ (w.call = "publish" /\ w.pc \in {"file_get", "file_put", "pages", "probe"})
         => (w.creates = 1 <=> w.round = 1)
    /\ (w.round = 1 /\ w.pub_writes > 0) => w.create_answer \in {"201", "422"}
    /\ (w.creates = 1 /\ w.pc # "create") =>
         IF w.create_answer \in {"201", "422"}
         THEN w.fail_at # "create"
         ELSE /\ w.pc = "failed" /\ w.fail_at = "create"
              /\ w.pf_writes = 0 /\ w.pub_writes = 0 /\ w.posts = 0

C11_Witness ==
  \E i \in ReqIds :
    wk[i].create_answer = "422" /\ wk[i].pub_writes = 3 /\ wk[i].pc = "done"
\* C12 as stated: a publish call that got as far as the commit loop has
\* attempted the write of LICENSE.
C12_LicenseAlwaysAttempted ==
  \A i \in ReqIds :
    wk[i].fail_at \in {"file_get", "file_put"} => wk[i].lic_put # Absent

\* C12 amended: the file set of the commit loop of a publish call holds LICENSE
\* exactly once, whatever keys the generator returned; the content of every
\* attempted write of LICENSE is the fixed license text; a publish call that
\* is past the loop or has returned has written LICENSE with that text.
C12_LicenseInFileSet ==
  \A i \in ReqIds :
    LET w == wk[i] IN
    /\ (w.call = "publish" /\ w.pc \in {"file_get", "file_put"})
         => Cardinality({k \in 1..Len(w.files) : w.files[k] = "LICENSE"}) = 1
    /\ w.lic_put \in {Absent, LicenseContent}
    /\ ((w.call = "publish" /\ w.pc \in {"pages", "probe"}) \/ PublishReturned(w))
         => /\ w.lic_put = LicenseContent
            /\ remote[w.task].files["LICENSE"] = LicenseContent

C12_Witness ==
  \E i \in ReqIds : wk[i].app_files = "with_license" /\ PublishReturned(wk[i])

\* C17: what the publish call is handed is a mapping with both keys.
C17_OnlyArtifactSetsPublished ==
  \A i \in ReqIds : wk[i].call = "publish" => IsMapping(wk[i].app_files)
\* C13: a worker whose pre-fetch failed (transport error, not-found, malformed
\* response, or an exception later in the pre-fetch call) is not FAILED; once
\* the pre-fetch call is over it stands before the generation call with prior
\* content absent, the call can be made, and its instruction is the one of
\* round 1.
C13_PrefetchFailureSwallowed ==
  \A i \in ReqIds :
    LET w == wk[i] IN
    w.pf_failure # None =>
      /\ w.pc # "failed" /\ w.fail_at = None
      /\ w.call \in {None, "prefetch"}
      /\ w.call = None =>
           /\ w.pc = "generate" /\ w.llm_calls = 0
           /\ w.existing_code = Absent
           /\ PromptStyle(w.round, w.existing_code) = "generate"
           /\ ENABLED Generate(i)

C13_Witness ==
  \E i \in ReqIds :
    wk[i].pf_failure = "malformed" /\ wk[i].pc = "generate" /\ wk[i].round = 2
\* The two ways process_task_async ends.
Terminal == {"done", "failed"}

\* C14: under fair scheduling of the worker's steps (every external call
\* returns or fails), a started worker reaches DONE or FAILED, and a worker
\* that is DONE or FAILED takes no further step.
C14_WorkerTerminates ==
  /\ \A i \in ReqIds : (wk[i].pc = "start") ~> (wk[i].pc \in Terminal)
  /\ [][\A i \in ReqIds : wk[i].pc \in Terminal => wk'[i] = wk[i] /\ ~ENABLED WorkerStep(i)]_vars

C14_Witness ==
  \E i \in ReqIds : wk[i].pc = "failed" /\ wk[i].fail_at = "pages" /\ wk[i].pub_writes = 3
\* C15 as stated: over a run of a worker the callback endpoint receives the
\* worker's payload at most one time.
C15_ReceivedAtMostOnce == \A i \in ReqIds : wk[i].received <= 1

\* C15 amended: the endpoint receives the payload at most once per attempt,
\* so at most max_retries times over a run, and never again after an attempt
\* that was answered with success.
C15_ReceivedAtMostOncePerAttempt ==
  /\ [](\A i \in ReqIds : wk[i].received <= wk[i].posts /\ wk[i].posts <= max_retries)
  /\ [][\A i \in ReqIds :
          /\ wk'[i].received <= wk[i].received + 1
          /\ wk'[i].received > wk[i].received => wk'[i].posts = wk[i].posts + 1
          /\ wk[i].last_post = "ok" => wk'[i].received = wk[i].received]_vars

C15_Witness ==
  \E i \in ReqIds : wk[i].received = max_retries /\ wk[i].pc = "done"
\* C16: with workers running concurrently, the payload of worker i has the
\* email, task, round and nonce of request i, and the repository URL, commit
\* identifier and page URL its own publish call returned, the commit being one
\* that worker i made; a worker that has posted has such a payload.
C16_PayloadIsOwn ==
  \A i \in Ids :
    LET w == wk[i] IN
    /\ w.posts > 0 => w.payload # <<>>
    /\ w.payload # <<>> =>
         LET p == w.payload[1]
             d == w.repo_details[1]
         IN /\ p.email = gw[i].req.email /\ p.task = gw[i].req.task
            /\ p.round = gw[i].req.round /\ p.nonce = gw[i].req.nonce
            /\ p.repo_url = d.repo_url /\ p.commit_sha = d.commit_sha
            /\ p.pages_url = d.pages_url
            /\ d.repo_url = repo_url(variant, w.task)
            /\ d.pages_url = pages_live_url(w.task)
            /\ d.commit_sha # Absent /\ d.commit_sha[1] = i
            /\ \A j \in Ids \ {i} : gw[j].pc # "idle" => p.nonce # gw[j].req.nonce

C16_Witness ==
  \E i, j \in Ids :
    /\ i # j /\ wk[i].posts > 0 /\ wk[j].posts > 0
    /\ wk[i].round # wk[j].round
\* C18: a request answered with 200 has a worker of its own, started with the
\* request's task and round, a request answered with 401 has none, and once
\* every request received is answered the number of workers started is the
\* number of requests answered with 200.
C18_OneWorkerPerAcceptedRequest ==
  /\ \A i \in Ids :
       /\ gw[i].resp = 200 =>
            /\ wk[i].pc # "none"
            /\ wk[i].task = gw[i].req.task /\ wk[i].round = gw[i].req.round
       /\ gw[i].resp = 401 => wk[i].pc = "none"
       /\ gw[i].pc = "idle" => wk[i].pc = "none"
  /\ (\A i \in Ids : gw[i].pc \in {"idle", "responded"}) =>
       Cardinality({i \in Ids : wk[i].pc # "none"})
         = Cardinality({i \in Ids : gw[i].resp = 200})

C18_Witness ==
  \E i, j \in Ids :
    /\ i < j /\ gw[i].resp = 200 /\ gw[j].resp = 200
    /\ wk[i].task = wk[j].task
    /\ wk[i].pc \notin {"none", "done", "failed"} /\ wk[j].pc = "start"
\* C19: with two workers interleaving on one task and a platform that rejects
\* a stale version token, the write a worker is about to make to the existing
\* repository, with the token its check obtained, is accepted.
C19_ConcurrentWritesSucceed ==
  \A i \in Ids :
    LET w == wk[i] IN
    (w.pc = "file_put" /\ remote[w.task].exists)
      => WriteAccepted(remote[w.task], w.files[w.fi], w.sha)
C21_PagesFailureNotFatal ==
  \A i \in ReqIds : ~(wk[i].pc = "failed" /\ wk[i].fail_at = "pages")
\* C22: the pre-fetch call only reads: a worker inside it is at the read of
\* index.html and nowhere else, no file was ever written by a pre-fetch call,
\* and before the generation call the worker has created no repository and
\* has not requested static hosting.
C22_PrefetchIsReadOnly ==
  \A i \in ReqIds :
    LET w == wk[i] IN
    /\ w.pf_writes = 0
    /\ w.call = "prefetch" => w.pc = "idx_get"
    /\ w.llm_calls = 0 => w.creates = 0 /\ w.pages_posts = 0
\* No worker but i has been started.
OnlyWorker(i) == \A j \in Ids \ {i} : wk[j].pc = "none"

\* C23: a file is written right after its own existence check; the write
\* carries a token exactly when the check found the file, and then the token
\* the check returned; with no other worker, a write to a file the check found,
\* or to a file that does not exist yet, is one the platform accepts.
C23_CheckThenWriteWithToken ==
  /\ [](\A i \in ReqIds :
          LET w == wk[i] IN
          w.pc = "file_put" =>
            /\ w.found <=> w.sha # Absent
            /\ (OnlyWorker(i) /\ remote[w.task].exists
                  /\ (w.found \/ remote[w.task].files[w.files[w.fi]] = Absent))
                 => WriteAccepted(remote[w.task], w.files[w.fi], w.sha))
  /\ [][\A i \in ReqIds :
          LET w == wk[i]
              w2 == wk'[i]
          IN /\ (w2.pc = "file_put" /\ w2 # w)
                  => /\ w.pc = "file_get" /\ w2.fi = w.fi /\ w2.files = w.files
                     /\ w2.found => w2.sha = remote[w.task].files[w.files[w.fi]]
             /\ (w2.pub_writes # w.pub_writes \/ w2.pf_writes # w.pf_writes)
                  => w.pc = "file_put"]_vars

C23_Witness ==
  \E i \in ReqIds :
    /\ wk[i].round = 2 /\ wk[i].pc = "done" /\ wk[i].pub_writes = 3
    /\ \A f \in FileNames : remote[wk[i].task].files[f] = ContentOf(i, f)
\* The last file of the publish call's commit loop.
LastFile(app_files) ==
  FilesToCommit("publish", app_files)[Len(FilesToCommit("publish", app_files))]

\* C24: the commit identifier in a payload is not null and is the commit of
\* worker i's write of the last file of its publish call; the publish call
\* returns the identifier its last write recorded.
C24_CommitIsLastWrite ==
  /\ [](\A i \in ReqIds :
          wk[i].payload # <<>> =>
            /\ wk[i].payload[1].commit_sha # Absent
            /\ wk[i].payload[1].commit_sha = <<i, LastFile(wk[i].app_files)>>)
  /\ [][\A i \in ReqIds :
          (wk[i].call = "publish" /\ wk'[i].pc = "notify")
            => /\ wk[i].latest_commit_sha = <<i, wk[i].files[Len(wk[i].files)]>>
               /\ wk'[i].repo_details[1].commit_sha = wk[i].latest_commit_sha
               /\ wk[i].pub_writes = Len(wk[i].files)]_vars

C24_Witness ==
  \E i \in ReqIds :
    /\ wk[i].pc = "done" /\ wk[i].posts > 0 /\ wk[i].app_files = "with_license"
    /\ wk[i].payload[1].commit_sha = <<i, "README.md">>
\* C25: whatever fields the request left out, a worker whose publish call
\* returned and which has ended has made a POST to the callback URL.
C25_PublishedThenNotified ==
  \A i \in ReqIds :
    (wk[i].repo_details # <<>> /\ wk[i].pc \in Terminal) => wk[i].posts > 0
====
